---- MODULE Spec2Model ----
(***************************************************************************)
(* Model of src/server.js: the Express handlers /log-artefact-data,        *)
(* /fetch-description and /fetch-more-info, the Thread collection they     *)
(* share (Mongoose model "Thread") and the remote Assistants service       *)
(* (threads, messages, runs) they drive.                                   *)
(*                                                                         *)
(* A request is a process.  Its pc names the awaited operation that is     *)
(* pending; one action is that operation taking effect followed by the     *)
(* synchronous continuation up to the next await (JavaScript runs the      *)
(* code between two awaits without interruption).  The 3 s sleep of a poll *)
(* iteration changes nothing and is folded into the poll that follows it.  *)
(*                                                                         *)
(* Mongoose: findOne without a sort returns the first matching document in *)
(* natural (insertion) order; save() of a document made by `new Thread`    *)
(* inserts it; save() of a loaded or already inserted document sends only  *)
(* the changes made to the in-memory copy: $push for array pushes, $set    *)
(* for changed fields of an array element.  Documents are never deleted,   *)
(* so the index of a document in `store` is its _id.                       *)
(*                                                                         *)
(* Texts are tuples of strings: a template's fixed wording followed by the *)
(* values interpolated into it; << >> is the empty string.  A missing or   *)
(* empty request field is "" (both are falsy in the handlers' checks).     *)
(***************************************************************************)
EXTENDS Integers, Sequences, FiniteSets, TLC

\* ------------------------------------------------------------------ bounds
\* Spec: MaxRequests requests, up to MaxConcurrent of them in flight at once.
\* SeqSpec: SeqRequests requests, one after the other.
\* LiveSpec: LiveRequests requests, one after the other, every pending
\* operation eventually resolving.
MaxRequests == 2
MaxConcurrent == 2
SeqRequests == 3
LiveRequests == 1
\* TTSSpec: TTSRequests /fetch-tts requests, all of which may be in flight.
TTSRequests == 2
\* AllSpec: AllRequests requests to any of the four handlers, one at a time.
AllRequests == 2
\* LogSeqSpec: LogSeqRequests /log-artefact-data requests, one at a time.
LogSeqRequests == 3
\* LogConcSpec: LogConcRequests /log-artefact-data requests, at most
\* LogConcurrent of them in flight.
LogConcRequests == 3
LogConcurrent == 2

\* ------------------------------------------------------------------ inputs
Participants == {"p1", "p2"}
Artefacts == {"Vase"}
Profiles == {"Explorer"}
Descriptions == {"An ancient vase."}
Missing == ""

\* ------------------------------------------------------------------ state
VARIABLES store, rthreads, nRuns, req, nStarted

vars == <<store, rthreads, nRuns, req, nStarted>>

Max(a, b) == IF a > b THEN a ELSE b

Req ==
    1..Max(Max(Max(MaxRequests, SeqRequests), Max(LiveRequests, TTSRequests)),
           Max(AllRequests, Max(LogSeqRequests, LogConcRequests)))

NoThread == 0
NoDoc == 0

\* ------------------------------------------------------------------ texts
EmptyText == << >>

Contains(text, v) == \E i \in 1..Len(text) : text[i] = v


\* Line 168: the adaptation prompt, with profile, artefact and description
\* interpolated.
AdaptPrompt(profile, artefact, originalDescription) ==
    <<"Adapt the following artefact description", profile, artefact, originalDescription>>

\* Line 365: the "tell me more" prompt.
MoreInfoPrompt(profile, artefact, currentDescription) ==
    <<"The visitor wants to learn more", profile, artefact, currentDescription>>

\* Lines 289, 308, 315: the fallback text, which embeds originalDescription.
Fallback(originalDescription) ==
    <<"Adaptation failed. However, here's the original description:", originalDescription>>

TookTooLong == <<"Error: Assistant took too long to respond.">>
CouldNotCreateThread == <<"Error: Could not create assistant thread.">>
CouldNotSendPrompt == <<"Error: Could not send prompt to assistant.">>
CouldNotStart == <<"Error: Assistant could not start processing.">>
MissingFDFields == <<"Missing artefact, profile, or participantId">>
MissingFMIFields == <<"Missing artefact, profile, participantId, or currentDescription">>
MissingLogFields == <<"Missing required artefact data fields.">>
CouldNotCreateNewThread == <<"Could not create a new thread.">>
NoAdditionalInfo == <<"No additional information found.">>
FailedMoreInfo == <<"Failed to fetch additional information.">>
LoggedOk == <<"Artefact data logged/updated successfully.">>
FailedToLog == <<"Failed to log artefact data.">>

\* The text the remote service generates for a run.
GeneratedText(run) == <<"generated", ToString(run)>>
IsGenerated(text) == Len(text) > 0 /\ text[1] = "generated"

\* ------------------------------------------------------------------ remote
\* Run statuses of the Assistants API; the loops keep polling on the first two.
PollingStatuses == {"queued", "in_progress"}
RunStatuses == {"queued", "in_progress", "completed", "failed", "expired"}

\* What a completed run left in its thread: an assistant message with a text,
\* with an empty text, with an empty content array, with no content, or nothing.
Shapes == {"text", "emptytext", "emptycontent", "nocontent"}

\* A reply to a POST that should carry an id, or the fetch rejecting.
PostReplies == {"id", "noid", "throw"}

RemoteMessage(role, by, shape, text) ==
    [role |-> role, by |-> by, shape |-> shape, text |-> text]

NoMessage == RemoteMessage("none", 0, "none", EmptyText)

\* GET /threads/{id}/messages lists newest first; find() takes the first
\* assistant message of that list, i.e. the newest assistant message of the
\* thread (lines 285, 423).
FirstAssistant(msgs) ==
    IF \E i \in 1..Len(msgs) : msgs[i].role = "assistant"
    THEN LET i == CHOOSE k \in 1..Len(msgs) :
                    /\ msgs[k].role = "assistant"
                    /\ \A j \in (k+1)..Len(msgs) : msgs[j].role # "assistant"
         IN msgs[i]
    ELSE NoMessage

\* ------------------------------------------------------------------ store
\* Lines 53-68: threadSchema.
Interaction(artefact, descriptionType, profile, time, clicks, mode, audio) ==
    [artefact |-> artefact, descriptionType |-> descriptionType, profile |-> profile,
     timeSpentSeconds |-> time, tellMeMoreClicked |-> clicks,
     deliveryMode |-> mode, playedAudio |-> audio]

NoInteraction == Interaction("", "", "", 0, 0, "", "")

ThreadDoc(participantId, threadId, interactions) ==
    [participantId |-> participantId, threadId |-> threadId,
     messages |-> << >>, artefactInteractions |-> interactions]

StoredMessage(role, content, by) == [role |-> role, content |-> content, by |-> by]

\* Thread.findOne without its filter: the first document of the collection.
FindOneOfAny(s, participantId) == IF Len(s) > 0 THEN 1 ELSE NoDoc

\* Thread.findOne({ participantId }): the first match in insertion order.
FindOne(s, participantId) ==
    IF \E i \in 1..Len(s) : s[i].participantId = participantId
    THEN CHOOSE i \in 1..Len(s) :
            /\ s[i].participantId = participantId
            /\ \A j \in 1..(i-1) : s[j].participantId # participantId
    ELSE NoDoc

\* save() after thread.messages.push(m): $push of m to the document.
PushMessage(s, doc, m) ==
    [s EXCEPT ![doc].messages = Append(@, m)]

\* ------------------------------------------------------------------ requests
\* req.body.  A numeric field is the value Number() gives it; nan marks a
\* value Number() maps to NaN (absent or non-numeric).
Num(v) == [nan |-> FALSE, val |-> v]
NotANumber == [nan |-> TRUE, val |-> 0]

Body(participantId, artefact, profile, description, descriptionType, mode, audio, time, clicks) ==
    [participantId |-> participantId, artefact |-> artefact, profile |-> profile,
     description |-> description, descriptionType |-> descriptionType,
     deliveryMode |-> mode, playedAudio |-> audio,
     timeSpentSeconds |-> time, tellMeMoreClicked |-> clicks]

NoBody == Body("", "", "", "", "", "", "", NotANumber, NotANumber)

\* res.status(status).json({ key: text }), sent by the call at source line
\* `at`; status 0: nothing sent yet.
Response(status, key, text, at) ==
    [status |-> status, key |-> key, text |-> text, at |-> at]
NoResponse == Response(0, "", EmptyText, 0)

\* The change a pending save() of /log-artefact-data will send.
NoDelta == [op |-> "none", idx |-> 0, item |-> NoInteraction, modified |-> {}]

\* fetchTTSWithRetry's parameter and loop variable, and what is recorded of
\* the call: events, the synthesis calls and backoff waits in the order they
\* were made; errors, the errors caught, in order; raised, the error thrown
\* to the caller (EmptyText: none); ok, the first attempt whose response was
\* ok and whose body was read (0: none).
NoTTS ==
    [text |-> "", i |-> 0, events |-> << >>, errors |-> << >>,
     raised |-> EmptyText, ok |-> 0]

\* A request: its handler, its position (the awaited operation that is
\* pending), the handler's local variables, and what is recorded of it:
\* after, the threadIds that /fetch-description requests of the same
\* participant had answered 200 on when this one arrived; sent, the number of
\* responses sent; lateCall, whether a remote call was made after the response.
IdleReq ==
    [kind |-> "none", pc |-> "idle", body |-> NoBody,
     doc |-> NoDoc, threadId |-> NoThread, runId |-> 0,
     status |-> "", attemptCount |-> 0, responseContent |-> EmptyText,
     delta |-> NoDelta, res |-> NoResponse,
     after |-> {}, sent |-> 0, lateCall |-> FALSE, tts |-> NoTTS]

\* res.status(..).json(..) followed by leaving the handler: its local
\* variables are gone (threadId and status are kept, as the record of the
\* thread used and of the last run status seen).
Respond(q, status, key, text, at) ==
    [q EXCEPT !.pc = "done", !.res = Response(status, key, text, at), !.sent = @ + 1,
              !.doc = NoDoc, !.runId = 0, !.attemptCount = 0,
              !.responseContent = EmptyText, !.delta = NoDelta]

\* A remote call is being made by q.
Calling(q) == [q EXCEPT !.lateCall = @ \/ (q.sent > 0)]

\* The threads on which /fetch-description requests of a participant have
\* been answered, with status 200, the text their run generated.
AnsweredOn(participantId) ==
    {req[r].threadId : r \in {x \in Req : /\ req[x].kind = "fetch-description"
                                          /\ req[x].pc = "done"
                                          /\ req[x].res.status = 200
                                          /\ IsGenerated(req[x].res.text)
                                          /\ req[x].body.participantId = participantId}}

InFlight == {r \in Req : req[r].pc \notin {"idle", "done"}}

Init ==
    /\ store = << >>
    /\ rthreads = << >>
    /\ nRuns = 0
    /\ req = [r \in Req |-> IdleReq]
    /\ nStarted = 0

\* ------------------------------------------------------------------ POST /fetch-description
FDBodies ==
    {Body(p, a, f, d, "", "", "", NotANumber, NotANumber) :
        p \in Participants, a \in Artefacts, f \in Profiles, d \in Descriptions}
    \cup {Body(Missing, "Vase", "Explorer", "An ancient vase.", "", "", "", NotANumber, NotANumber),
          Body("p1", "Vase", "Explorer", Missing, "", "", "", NotANumber, NotANumber)}

\* Lines 254-258 with the `return` of line 257 missing: the timeout response is
\* sent and the loop goes on.
FDLoopHeadNoReturn(q) ==
    IF q.attemptCount > 10
    THEN [q EXCEPT !.pc = "poll", !.sent = @ + 1,
                   !.res = Response(500, "response", TookTooLong, 257)]
    ELSE [q EXCEPT !.pc = "poll"]

\* Lines 254-258: the head of the poll loop, reached with a polling status.
FDLoopHead(q) ==
    IF q.attemptCount > 10
    THEN Respond(q, 500, "response", TookTooLong, 257)
    ELSE [q EXCEPT !.pc = "poll"]

\* Lines 307-311 without the fallback of lines 307-309.
FDAfterLoopNoFallback(q) == Respond(q, 200, "response", q.responseContent, 311)

\* Lines 307-311: after the loop.
FDAfterLoop(q) ==
    LET content == IF q.responseContent = EmptyText
                   THEN Fallback(q.body.description)
                   ELSE q.responseContent
    IN Respond(q, 200, "response", content, 311)

\* Lines 313-316: the catch branch.
FDCatch(q) == Respond(q, 500, "response", Fallback(q.body.description), 315)

\* Line 287 testing only !assistantMessage.
FDNoValidResponseNoContentCheck(m) == m.role # "assistant"

\* Line 287: is the message found no usable assistant message?
FDNoValidResponse(m) ==
    m.role # "assistant" \/ m.shape \in {"nocontent", "emptycontent"}

\* Lines 158-171: validation, then Thread.findOne is awaited.
FDStart(r, b) ==
    LET q == [IdleReq EXCEPT !.kind = "fetch-description", !.body = b,
                             !.after = AnsweredOn(b.participantId)]
    IN req' = [req EXCEPT ![r] =
                IF b.artefact = "" \/ b.description = "" \/ b.profile = "" \/ b.participantId = ""
                THEN Respond(q, 400, "error", MissingFDFields, 165)
                ELSE [q EXCEPT !.pc = "findOne"]]

\* Lines 171-175, 202-207: findOne resolves; a thread is created unless the
\* session found has a threadId.
FDFindOne(r) ==
    /\ req[r].kind = "fetch-description" /\ req[r].pc = "findOne"
    /\ LET d == FindOne(store, req[r].body.participantId)
       IN req' = [req EXCEPT ![r] =
                   IF d = NoDoc \/ store[d].threadId = NoThread
                   THEN [@ EXCEPT !.pc = "createThread"]
                   ELSE [@ EXCEPT !.pc = "postMessage", !.doc = d,
                                  !.threadId = store[d].threadId]]
    /\ UNCHANGED <<store, rthreads, nRuns, nStarted>>

\* Lines 175-200: POST /threads resolves.
FDCreateThread(r) ==
    /\ req[r].kind = "fetch-description" /\ req[r].pc = "createThread"
    /\ \E reply \in PostReplies :
        LET q == Calling(req[r]) IN
        CASE reply = "id" ->
                /\ rthreads' = Append(rthreads,
                        [participantId |-> q.body.participantId, messages |-> << >>])
                /\ req' = [req EXCEPT ![r] =
                        [q EXCEPT !.pc = "saveNew", !.threadId = Len(rthreads) + 1]]
          [] reply = "noid" ->
                /\ req' = [req EXCEPT ![r] = Respond(q, 500, "response", CouldNotCreateThread, 187)]
                /\ UNCHANGED rthreads
          [] reply = "throw" ->
                /\ req' = [req EXCEPT ![r] = FDCatch(q)]
                /\ UNCHANGED rthreads
    /\ UNCHANGED <<store, nRuns, nStarted>>

\* Lines 190-207: save() of the new Thread inserts it.
FDSaveNew(r) ==
    /\ req[r].kind = "fetch-description" /\ req[r].pc = "saveNew"
    /\ store' = Append(store, ThreadDoc(req[r].body.participantId, req[r].threadId, << >>))
    /\ req' = [req EXCEPT ![r] = [@ EXCEPT !.pc = "postMessage", !.doc = Len(store) + 1]]
    /\ UNCHANGED <<rthreads, nRuns, nStarted>>

\* Lines 207-229: POST /threads/{id}/messages resolves.
FDPostMessage(r) ==
    /\ req[r].kind = "fetch-description" /\ req[r].pc = "postMessage"
    /\ \E reply \in PostReplies :
        LET q == Calling(req[r])
            b == q.body IN
        CASE reply = "id" ->
                /\ rthreads' = [rthreads EXCEPT ![q.threadId].messages =
                        Append(@, RemoteMessage("user", r, "text",
                                    AdaptPrompt(b.profile, b.artefact, b.description)))]
                /\ req' = [req EXCEPT ![r] = [q EXCEPT !.pc = "savePrompt"]]
          [] reply = "noid" ->
                /\ req' = [req EXCEPT ![r] = Respond(q, 500, "response", CouldNotSendPrompt, 219)]
                /\ UNCHANGED rthreads
          [] reply = "throw" ->
                /\ req' = [req EXCEPT ![r] = FDCatch(q)]
                /\ UNCHANGED rthreads
    /\ UNCHANGED <<store, nRuns, nStarted>>

\* Lines 222-232: save() sends the pushed prompt.
FDSavePrompt(r) ==
    /\ req[r].kind = "fetch-description" /\ req[r].pc = "savePrompt"
    /\ LET b == req[r].body IN
       store' = PushMessage(store, req[r].doc,
                    StoredMessage("user", AdaptPrompt(b.profile, b.artefact, b.description), r))
    /\ req' = [req EXCEPT ![r] = [@ EXCEPT !.pc = "createRun"]]
    /\ UNCHANGED <<rthreads, nRuns, nStarted>>

\* Lines 232-260: POST /threads/{id}/runs resolves; the loop is entered.
FDCreateRun(r) ==
    /\ req[r].kind = "fetch-description" /\ req[r].pc = "createRun"
    /\ \E reply \in PostReplies :
        LET q == Calling(req[r]) IN
        CASE reply = "id" ->
                /\ nRuns' = nRuns + 1
                /\ req' = [req EXCEPT ![r] =
                        FDLoopHead([q EXCEPT !.runId = nRuns + 1, !.status = "in_progress",
                                             !.responseContent = EmptyText,
                                             !.attemptCount = 0])]
          [] reply = "noid" ->
                /\ req' = [req EXCEPT ![r] = Respond(q, 500, "response", CouldNotStart, 244)]
                /\ UNCHANGED nRuns
          [] reply = "throw" ->
                /\ req' = [req EXCEPT ![r] = FDCatch(q)]
                /\ UNCHANGED nRuns
    /\ UNCHANGED <<store, rthreads, nStarted>>

\* The run of request r completes at the remote service, leaving a message of
\* the given shape (or none) in its thread.
RunCompletes(threads, threadId, r, runId, shape) ==
    IF shape = "none"
    THEN threads
    ELSE [threads EXCEPT ![threadId].messages =
            Append(@, RemoteMessage("assistant", r, shape,
                        IF shape = "text" THEN GeneratedText(runId) ELSE EmptyText))]

\* Lines 260-278, 254-258, 307-311: the 3 s sleep, then GET /runs/{id} resolves.
FDPoll(r) ==
    /\ req[r].kind = "fetch-description" /\ req[r].pc = "poll"
    /\ \E st \in RunStatuses \cup {"throw"} :
        LET q == [Calling(req[r]) EXCEPT !.attemptCount = @ + 1] IN
        CASE st = "throw" ->
                /\ req' = [req EXCEPT ![r] = FDCatch(q)]
                /\ UNCHANGED rthreads
          [] st = "completed" ->
                /\ \E shape \in Shapes \cup {"none"} :
                        rthreads' = RunCompletes(rthreads, q.threadId, r, q.runId, shape)
                /\ req' = [req EXCEPT ![r] =
                        [q EXCEPT !.status = st, !.pc = "listMessages"]]
          [] st \in PollingStatuses ->
                /\ req' = [req EXCEPT ![r] = FDLoopHead([q EXCEPT !.status = st])]
                /\ UNCHANGED rthreads
          [] OTHER ->
                /\ req' = [req EXCEPT ![r] = FDAfterLoop([q EXCEPT !.status = st])]
                /\ UNCHANGED rthreads
    /\ UNCHANGED <<store, nRuns, nStarted>>

\* Lines 278-301: GET /threads/{id}/messages resolves.
FDListMessages(r) ==
    /\ req[r].kind = "fetch-description" /\ req[r].pc = "listMessages"
    /\ \E reply \in {"ok", "throw"} :
        LET q == Calling(req[r])
            m == FirstAssistant(rthreads[q.threadId].messages) IN
        req' = [req EXCEPT ![r] =
                 IF reply = "throw" THEN FDCatch(q)
                 ELSE IF FDNoValidResponse(m)
                 THEN Respond(q, 500, "response", Fallback(q.body.description), 289)
                 ELSE [q EXCEPT !.responseContent = m.text, !.pc = "saveAssistant"]]
    /\ UNCHANGED <<store, rthreads, nRuns, nStarted>>

\* Lines 294-311: save() sends the pushed assistant message; break; respond.
FDSaveAssistant(r) ==
    /\ req[r].kind = "fetch-description" /\ req[r].pc = "saveAssistant"
    /\ store' = PushMessage(store, req[r].doc,
                    StoredMessage("assistant", req[r].responseContent, r))
    /\ req' = [req EXCEPT ![r] = FDAfterLoop(@)]
    /\ UNCHANGED <<rthreads, nRuns, nStarted>>

\* ------------------------------------------------------------------ POST /fetch-more-info
FMIBodies ==
    {Body(p, a, f, d, "", "", "", NotANumber, NotANumber) :
        p \in Participants, a \in Artefacts, f \in Profiles, d \in Descriptions}
    \cup {Body("p1", "Vase", "Explorer", Missing, "", "", "", NotANumber, NotANumber)}

\* Lines 442-445: the catch branch.
FMICatch(q) == Respond(q, 500, "response", FailedMoreInfo, 444)

\* Line 440: after the loop.
FMIAfterLoop(q) == Respond(q, 200, "response", q.responseContent, 440)

\* Line 407: the head of the poll loop.
FMILoopHead(q) ==
    IF q.status \in PollingStatuses THEN [q EXCEPT !.pc = "poll"] ELSE FMIAfterLoop(q)

\* Line 425: assistantMessage?.content[0]?.text?.value || "No additional ...".
FMIResponseContent(m) ==
    IF m.role = "assistant" /\ m.shape = "text" THEN m.text ELSE NoAdditionalInfo

\* Lines 320-331: validation, then Thread.findOne is awaited.
FMIStart(r, b) ==
    LET q == [IdleReq EXCEPT !.kind = "fetch-more-info", !.body = b]
    IN req' = [req EXCEPT ![r] =
                IF b.artefact = "" \/ b.profile = "" \/ b.participantId = "" \/ b.description = ""
                THEN Respond(q, 400, "error", MissingFMIFields, 327)
                ELSE [q EXCEPT !.pc = "findOne"]]

\* Lines 331-337, 361-376: findOne resolves; with a session that has a threadId
\* the prompt is pushed and save() awaited.
FMIFindOne(r) ==
    /\ req[r].kind = "fetch-more-info" /\ req[r].pc = "findOne"
    /\ LET d == FindOne(store, req[r].body.participantId)
       IN req' = [req EXCEPT ![r] =
                   IF d = NoDoc \/ store[d].threadId = NoThread
                   THEN [@ EXCEPT !.pc = "createThread"]
                   ELSE [@ EXCEPT !.pc = "savePrompt", !.doc = d,
                                  !.threadId = store[d].threadId]]
    /\ UNCHANGED <<store, rthreads, nRuns, nStarted>>

\* Lines 337-357: POST /threads resolves.
FMICreateThread(r) ==
    /\ req[r].kind = "fetch-more-info" /\ req[r].pc = "createThread"
    /\ \E reply \in PostReplies :
        LET q == Calling(req[r]) IN
        CASE reply = "id" ->
                /\ rthreads' = Append(rthreads,
                        [participantId |-> q.body.participantId, messages |-> << >>])
                /\ req' = [req EXCEPT ![r] =
                        [q EXCEPT !.pc = "saveNew", !.threadId = Len(rthreads) + 1]]
          [] reply = "noid" ->
                /\ req' = [req EXCEPT ![r] = Respond(q, 500, "error", CouldNotCreateNewThread, 347)]
                /\ UNCHANGED rthreads
          [] reply = "throw" ->
                /\ req' = [req EXCEPT ![r] = FMICatch(q)]
                /\ UNCHANGED rthreads
    /\ UNCHANGED <<store, nRuns, nStarted>>

\* Lines 350-376: save() of the new Thread inserts it; the prompt is pushed.
FMISaveNew(r) ==
    /\ req[r].kind = "fetch-more-info" /\ req[r].pc = "saveNew"
    /\ store' = Append(store, ThreadDoc(req[r].body.participantId, req[r].threadId, << >>))
    /\ req' = [req EXCEPT ![r] = [@ EXCEPT !.pc = "savePrompt", !.doc = Len(store) + 1]]
    /\ UNCHANGED <<rthreads, nRuns, nStarted>>

\* Lines 369-385: save() sends the pushed prompt.
FMISavePrompt(r) ==
    /\ req[r].kind = "fetch-more-info" /\ req[r].pc = "savePrompt"
    /\ LET b == req[r].body IN
       store' = PushMessage(store, req[r].doc,
                    StoredMessage("user", MoreInfoPrompt(b.profile, b.artefact, b.description), r))
    /\ req' = [req EXCEPT ![r] = [@ EXCEPT !.pc = "postMessage"]]
    /\ UNCHANGED <<rthreads, nRuns, nStarted>>

\* Lines 380-396: POST /threads/{id}/messages resolves.
FMIPostMessage(r) ==
    /\ req[r].kind = "fetch-more-info" /\ req[r].pc = "postMessage"
    /\ \E reply \in PostReplies :
        LET q == Calling(req[r])
            b == q.body IN
        IF reply = "id"
        THEN /\ rthreads' = [rthreads EXCEPT ![q.threadId].messages =
                        Append(@, RemoteMessage("user", r, "text",
                                    MoreInfoPrompt(b.profile, b.artefact, b.description)))]
             /\ req' = [req EXCEPT ![r] = [q EXCEPT !.pc = "createRun"]]
        ELSE /\ req' = [req EXCEPT ![r] = FMICatch(q)]
             /\ UNCHANGED rthreads
    /\ UNCHANGED <<store, nRuns, nStarted>>

\* Lines 391-408: POST /threads/{id}/runs resolves; the loop is entered.
FMICreateRun(r) ==
    /\ req[r].kind = "fetch-more-info" /\ req[r].pc = "createRun"
    /\ \E reply \in PostReplies :
        LET q == Calling(req[r]) IN
        IF reply = "id"
        THEN /\ nRuns' = nRuns + 1
             /\ req' = [req EXCEPT ![r] =
                        FMILoopHead([q EXCEPT !.runId = nRuns + 1, !.status = "in_progress",
                                              !.responseContent = EmptyText])]
        ELSE /\ req' = [req EXCEPT ![r] = FMICatch(q)]
             /\ UNCHANGED nRuns
    /\ UNCHANGED <<store, rthreads, nStarted>>

\* Lines 408-418, 407, 440: the 3 s sleep, then GET /runs/{id} resolves.
FMIPoll(r) ==
    /\ req[r].kind = "fetch-more-info" /\ req[r].pc = "poll"
    /\ \E st \in RunStatuses \cup {"throw"} :
        LET q == Calling(req[r]) IN
        CASE st = "throw" ->
                /\ req' = [req EXCEPT ![r] = FMICatch(q)]
                /\ UNCHANGED rthreads
          [] st = "completed" ->
                /\ \E shape \in Shapes \cup {"none"} :
                        rthreads' = RunCompletes(rthreads, q.threadId, r, q.runId, shape)
                /\ req' = [req EXCEPT ![r] =
                        [q EXCEPT !.status = st, !.pc = "listMessages"]]
          [] OTHER ->
                /\ req' = [req EXCEPT ![r] = FMILoopHead([q EXCEPT !.status = st])]
                /\ UNCHANGED rthreads
    /\ UNCHANGED <<store, nRuns, nStarted>>

\* Lines 418-434: GET /threads/{id}/messages resolves.  content[0] of a message
\* without content throws.
FMIListMessages(r) ==
    /\ req[r].kind = "fetch-more-info" /\ req[r].pc = "listMessages"
    /\ \E reply \in {"ok", "throw"} :
        LET q == Calling(req[r])
            m == FirstAssistant(rthreads[q.threadId].messages) IN
        req' = [req EXCEPT ![r] =
                 IF reply = "throw" \/ (m.role = "assistant" /\ m.shape = "nocontent")
                 THEN FMICatch(q)
                 ELSE [q EXCEPT !.responseContent = FMIResponseContent(m),
                                !.pc = "saveAssistant"]]
    /\ UNCHANGED <<store, rthreads, nRuns, nStarted>>

\* Lines 427-440: save() sends the pushed assistant message; break; respond.
FMISaveAssistant(r) ==
    /\ req[r].kind = "fetch-more-info" /\ req[r].pc = "saveAssistant"
    /\ store' = PushMessage(store, req[r].doc,
                    StoredMessage("assistant", req[r].responseContent, r))
    /\ req' = [req EXCEPT ![r] = FMIAfterLoop(@)]
    /\ UNCHANGED <<rthreads, nRuns, nStarted>>

\* ------------------------------------------------------------------ POST /log-artefact-data
DescriptionTypes == {"Adapted"}
DeliveryModes == {"Text-Based", "Auditory"}
PlayedAudioValues == {"Yes", "No"}

LogBodies ==
    {Body(p, a, "Explorer", "", "Adapted", m, "Yes", Num(5), Num(1)) :
        p \in Participants, a \in Artefacts, m \in {"Text-Based", Missing}}
    \cup {Body(Missing, "Vase", "Explorer", "", "Adapted", "Text-Based", "Yes", Num(5), Num(1))}

\* Bodies for the merge of lines 123-146: two artefacts of one participant
\* and one of another, numbers that are positive, negative or not numbers,
\* and delivery modes that change.
LogMergeBodies ==
    {Body(pa[1], pa[2], "Explorer", "", "Adapted", m[1], m[2], n[1], n[2]) :
        pa \in {<<"p1", "Vase">>, <<"p1", "Coin">>, <<"p2", "Vase">>},
        m \in {<<"Text-Based", "No">>, <<"Auditory", "Yes">>, <<Missing, "No">>},
        n \in {<<Num(5), Num(1)>>, <<Num(7), Num(2)>>, <<Num(-3), Num(-1)>>,
               <<NotANumber, NotANumber>>}}

\* Lines 90-94: Number(x), with NaN replaced by 0.
NumberOrZero(n) == IF n.nan THEN 0 ELSE n.val

\* Lines 123-125: findIndex by artefact; 0 stands for -1.
FindInteractionIndex(interactions, artefact) ==
    IF \E i \in 1..Len(interactions) : interactions[i].artefact = artefact
    THEN CHOOSE i \in 1..Len(interactions) :
            /\ interactions[i].artefact = artefact
            /\ \A j \in 1..(i-1) : interactions[j].artefact # artefact
    ELSE 0

\* Lines 127-133 overwriting the cumulative fields instead of adding to them.
LogDeltaOverwrites(interactions, b) ==
    LET idx == FindInteractionIndex(interactions, b.artefact)
        t == NumberOrZero(b.timeSpentSeconds)
        c == NumberOrZero(b.tellMeMoreClicked)
        item == Interaction(b.artefact, b.descriptionType, b.profile, t, c,
                            b.deliveryMode, b.playedAudio)
    IN IF idx # 0
       THEN [op |-> "set", idx |-> idx, item |-> item,
             modified |-> {f \in {"timeSpentSeconds", "tellMeMoreClicked",
                                  "deliveryMode", "playedAudio"} :
                                item[f] # interactions[idx][f]}]
       ELSE [op |-> "push", idx |-> 0, item |-> item, modified |-> {}]

\* Lines 127-146: the change made to the in-memory document, as save() will
\* send it: the changed fields of the existing element, or a pushed element
\* (playedAudio takes the schema default "No" when absent).
LogDelta(interactions, b) ==
    LET idx == FindInteractionIndex(interactions, b.artefact)
        t == NumberOrZero(b.timeSpentSeconds)
        c == NumberOrZero(b.tellMeMoreClicked)
    IN IF idx # 0
       THEN LET old == interactions[idx]
                new == [old EXCEPT !.timeSpentSeconds = @ + t,
                                   !.tellMeMoreClicked = @ + c,
                                   !.deliveryMode = b.deliveryMode,
                                   !.playedAudio = b.playedAudio]
            IN [op |-> "set", idx |-> idx, item |-> new,
                modified |-> {f \in {"timeSpentSeconds", "tellMeMoreClicked",
                                     "deliveryMode", "playedAudio"} : new[f] # old[f]}]
       ELSE [op |-> "push", idx |-> 0,
             item |-> Interaction(b.artefact, b.descriptionType, b.profile, t, c,
                                  b.deliveryMode,
                                  IF b.playedAudio = Missing THEN "No" ELSE b.playedAudio),
             modified |-> {}]

\* Lines 62-65: the schema's validators, run by save() on what changed.
ValidDelta(delta) ==
    /\ (delta.op = "push" \/ "deliveryMode" \in delta.modified)
            => delta.item.deliveryMode \in DeliveryModes
    /\ (delta.op = "push" \/ "playedAudio" \in delta.modified)
            => delta.item.playedAudio \in PlayedAudioValues \cup {Missing}

\* Line 148: save() of a loaded document sends the delta.
ApplyDelta(s, doc, delta) ==
    IF delta.op = "push"
    THEN [s EXCEPT ![doc].artefactInteractions = Append(@, delta.item)]
    ELSE [s EXCEPT ![doc].artefactInteractions[delta.idx] =
            [f \in DOMAIN @ |-> IF f \in delta.modified THEN delta.item[f] ELSE @[f]]]

\* Lines 86-112: validation, then Thread.findOne is awaited.
LogStart(r, b) ==
    LET q == [IdleReq EXCEPT !.kind = "log-artefact-data", !.body = b]
    IN req' = [req EXCEPT ![r] =
                IF b.participantId = "" \/ b.artefact = "" \/ b.descriptionType = "" \/ b.profile = ""
                THEN Respond(q, 400, "error", MissingLogFields, 108)
                ELSE [q EXCEPT !.pc = "findOne"]]

\* Lines 112-148: findOne resolves; the interaction is merged in memory and
\* save() awaited.
LogFindOne(r) ==
    /\ req[r].kind = "log-artefact-data" /\ req[r].pc = "findOne"
    /\ LET d == FindOne(store, req[r].body.participantId)
           interactions == IF d = NoDoc THEN << >> ELSE store[d].artefactInteractions
       IN req' = [req EXCEPT ![r] =
                   [@ EXCEPT !.pc = "save", !.doc = d,
                             !.delta = LogDelta(interactions, req[r].body)]]
    /\ UNCHANGED <<store, rthreads, nRuns, nStarted>>

\* Lines 148-154: save() validates, then inserts the new document or updates
\* the loaded one; a validation error is caught.
LogSave(r) ==
    /\ req[r].kind = "log-artefact-data" /\ req[r].pc = "save"
    /\ LET q == req[r] IN
       IF ~ValidDelta(q.delta)
       THEN /\ req' = [req EXCEPT ![r] = Respond(q, 500, "error", FailedToLog, 153)]
            /\ UNCHANGED store
       ELSE /\ store' = IF q.doc = NoDoc
                        THEN Append(store, ThreadDoc(q.body.participantId, NoThread,
                                                     <<q.delta.item>>))
                        ELSE ApplyDelta(store, q.doc, q.delta)
            /\ req' = [req EXCEPT ![r] = Respond(q, 200, "message", LoggedOk, 150)]
    /\ UNCHANGED <<rthreads, nRuns, nStarted>>

\* ------------------------------------------------------------------ POST /fetch-tts
\* Line 480: retries = 3.
Retries == 3

TTSTexts == {"An ancient vase.", Missing}

MissingTTSText == <<"Missing text input for TTS">>
NoAudioBuffer == <<"Failed to generate TTS audio">>
FailedTTS == <<"Failed to generate TTS audio. Please try again later.">>

\* Line 500: the Buffer made of the body of the given attempt's response.
Audio(attempt) == <<"audio", ToString(attempt)>>

\* Line 496: the Error thrown for a response that is not ok; the rejection of
\* fetch (line 485) or of arrayBuffer (line 498) on the given attempt.
TTSError(kind, attempt) == <<kind, ToString(attempt)>>

\* Lines 473-476: the handler's catch branch.
TTSHandlerCatch(q, error) ==
    Respond([q EXCEPT !.tts.raised = error], 500, "error", FailedTTS, 475)

\* Line 500 not returning: the loop waits and goes on after a success.
TTSReturnGoesOn(q, buffer) == [q EXCEPT !.pc = "ttsBackoff"]

\* Lines 500, 458-472: fetchTTSWithRetry returns the buffer and it is sent.
TTSReturn(q, buffer) == Respond(q, 200, "audio", buffer, 472)

\* Lines 481, 458-463: the head of the retry loop; when the loop ends the
\* function returns undefined and the handler answers 500.
TTSLoopHead(q) ==
    IF q.tts.i < Retries
    THEN [q EXCEPT !.pc = "ttsFetch"]
    ELSE Respond(q, 500, "error", NoAudioBuffer, 462)

\* Lines 501-508 throwing the first error caught instead of the last.
TTSCatchThrowsFirst(q, error) ==
    LET t == [q EXCEPT !.tts.errors = Append(@, error)] IN
    IF q.tts.i = Retries - 1
    THEN TTSHandlerCatch(t, t.tts.errors[1])
    ELSE [t EXCEPT !.pc = "ttsBackoff"]

\* Lines 501-508: the catch branch of an attempt.
TTSCatch(q, error) ==
    LET t == [q EXCEPT !.tts.errors = Append(@, error)] IN
    IF q.tts.i = Retries - 1
    THEN TTSHandlerCatch(t, error)
    ELSE [t EXCEPT !.pc = "ttsBackoff"]

\* Lines 449-458, 481-485: validation, then the first synthesis call is awaited.
TTSStart(r, text) ==
    LET q == [IdleReq EXCEPT !.kind = "fetch-tts", !.tts.text = text]
    IN req' = [req EXCEPT ![r] =
                IF text = ""
                THEN Respond(q, 400, "error", MissingTTSText, 454)
                ELSE TTSLoopHead(q)]

\* Lines 485-498: POST /v1/audio/speech resolves.
TTSFetch(r) ==
    /\ req[r].kind = "fetch-tts" /\ req[r].pc = "ttsFetch"
    /\ \E reply \in {"ok", "notok", "throw"} :
        LET q == [Calling(req[r]) EXCEPT !.tts.events = Append(@, "call")]
            attempt == q.tts.i + 1 IN
        req' = [req EXCEPT ![r] =
                 CASE reply = "ok" -> [q EXCEPT !.pc = "ttsBody"]
                   [] reply = "notok" ->
                        TTSCatch(q, TTSError("Failed to generate audio:", attempt))
                   [] reply = "throw" -> TTSCatch(q, TTSError("fetch rejected", attempt))]
    /\ UNCHANGED <<store, rthreads, nRuns, nStarted>>

\* Lines 498-500: response.arrayBuffer() resolves.
TTSBody(r) ==
    /\ req[r].kind = "fetch-tts" /\ req[r].pc = "ttsBody"
    /\ \E reply \in {"ok", "throw"} :
        LET q == req[r]
            attempt == q.tts.i + 1 IN
        req' = [req EXCEPT ![r] =
                 IF reply = "ok"
                 THEN TTSReturn([q EXCEPT !.tts.ok = IF @ = 0 THEN attempt ELSE @],
                                Audio(attempt))
                 ELSE TTSCatch(q, TTSError("arrayBuffer rejected", attempt))]
    /\ UNCHANGED <<store, rthreads, nRuns, nStarted>>

\* Lines 507, 481: the 3 s backoff resolves; i++ and the loop goes on.
TTSBackoff(r) ==
    /\ req[r].kind = "fetch-tts" /\ req[r].pc = "ttsBackoff"
    /\ req' = [req EXCEPT ![r] =
                TTSLoopHead([@ EXCEPT !.tts.events = Append(@, "wait"),
                                      !.tts.i = @ + 1])]
    /\ UNCHANGED <<store, rthreads, nRuns, nStarted>>

\* ------------------------------------------------------------------ the server
\* A request arrives: express runs its handler up to the first await.  At most
\* maxRequests requests arrive, and at most maxConcurrent are in flight.
Start(r, maxRequests, maxConcurrent) ==
    /\ r = nStarted + 1
    /\ r <= maxRequests
    /\ Cardinality(InFlight) < maxConcurrent
    /\ nStarted' = r
    /\ \/ \E b \in FDBodies : FDStart(r, b)
       \/ \E b \in FMIBodies : FMIStart(r, b)
       \/ \E b \in LogBodies : LogStart(r, b)
    /\ UNCHANGED <<store, rthreads, nRuns>>

\* One awaited operation of request r resolves.
Step(r) ==
    \/ FDFindOne(r) \/ FDCreateThread(r) \/ FDSaveNew(r) \/ FDPostMessage(r)
    \/ FDSavePrompt(r) \/ FDCreateRun(r) \/ FDPoll(r) \/ FDListMessages(r)
    \/ FDSaveAssistant(r)
    \/ FMIFindOne(r) \/ FMICreateThread(r) \/ FMISaveNew(r) \/ FMISavePrompt(r)
    \/ FMIPostMessage(r) \/ FMICreateRun(r) \/ FMIPoll(r) \/ FMIListMessages(r)
    \/ FMISaveAssistant(r)
    \/ LogFindOne(r) \/ LogSave(r)

Next == \E r \in Req : Start(r, MaxRequests, MaxConcurrent) \/ Step(r)

Spec == Init /\ [][Next]_vars

SeqNext == \E r \in Req : Start(r, SeqRequests, 1) \/ Step(r)

SeqSpec == Init /\ [][SeqNext]_vars

LiveNext == \E r \in Req : Start(r, LiveRequests, 1) \/ Step(r)

\* Node's event loop runs the continuation of every operation that resolves,
\* and every round trip returns.
LiveSpec == Init /\ [][LiveNext]_vars /\ \A r \in Req : WF_vars(Step(r))

\* A /fetch-tts request arrives.
StartTTS(r, maxRequests, maxConcurrent) ==
    /\ r = nStarted + 1
    /\ r <= maxRequests
    /\ Cardinality(InFlight) < maxConcurrent
    /\ nStarted' = r
    /\ \E text \in TTSTexts : TTSStart(r, text)
    /\ UNCHANGED <<store, rthreads, nRuns>>

\* One awaited operation of the /fetch-tts request r resolves.
TTSStep(r) == TTSFetch(r) \/ TTSBody(r) \/ TTSBackoff(r)

TTSNext == \E r \in Req : StartTTS(r, TTSRequests, TTSRequests) \/ TTSStep(r)

TTSSpec == Init /\ [][TTSNext]_vars

\* A /log-artefact-data request arrives with one of the given bodies.
StartLog(r, bodies, maxRequests, maxConcurrent) ==
    /\ r = nStarted + 1
    /\ r <= maxRequests
    /\ Cardinality(InFlight) < maxConcurrent
    /\ nStarted' = r
    /\ \E b \in bodies : LogStart(r, b)
    /\ UNCHANGED <<store, rthreads, nRuns>>

LogSeqNext ==
    \E r \in Req :
        StartLog(r, LogMergeBodies, LogSeqRequests, 1) \/ LogFindOne(r) \/ LogSave(r)

LogSeqSpec == Init /\ [][LogSeqNext]_vars

LogConcNext ==
    \E r \in Req :
        \/ StartLog(r, LogBodies, LogConcRequests, LogConcurrent)
        \/ LogFindOne(r) \/ LogSave(r)

LogConcSpec == Init /\ [][LogConcNext]_vars

\* The four handlers, one request at a time.
AllNext ==
    \E r \in Req :
        \/ Start(r, AllRequests, 1) \/ StartTTS(r, AllRequests, 1)
        \/ Step(r) \/ TTSStep(r)

AllSpec == Init /\ [][AllNext]_vars

\* ------------------------------------------------------------------ claims
DocsOf(p) == {i \in 1..Len(store) : store[i].participantId = p}
ThreadsOf(p) == {t \in 1..Len(rthreads) : rthreads[t].participantId = p}

\* The stored history of a participant: the messages of the session findOne
\* gives for it.
History(p) == IF FindOne(store, p) = NoDoc THEN << >> ELSE store[FindOne(store, p)].messages

IsFD(r) == req[r].kind = "fetch-description"
IsFMI(r) == req[r].kind = "fetch-more-info"
Done(r) == req[r].pc = "done"

\* C1: when first-time /fetch-description and /fetch-more-info requests of one
\* participant run concurrently, one thread is created at the remote service
\* and one session is stored for the participant.  (Sessions made by
\* /log-artefact-data, which have no threadId, are left out: every session of
\* the participant was made by a fetch request.)
C1_OneHandleUnderConcurrency ==
    \A p \in Participants :
        (\A i \in DocsOf(p) : store[i].threadId # NoThread)
            => Cardinality(ThreadsOf(p)) <= 1 /\ Cardinality(DocsOf(p)) <= 1

\* C2: a /fetch-description request that arrives after one of the same
\* participant was answered 200 creates no remote thread and uses the thread
\* of the earlier request.
C2_SecondCallReusesHandle ==
    \A r \in Req :
        (IsFD(r) /\ req[r].after # {})
            => /\ req[r].pc \notin {"createThread", "saveNew"}
               /\ req[r].threadId # NoThread => req[r].threadId \in req[r].after

\* C3: the store holds at most one session per participantId.
C3_OneSessionPerParticipant ==
    \A p \in Participants : Cardinality(DocsOf(p)) <= 1

\* The requests of p that passed validation in a fetch handler, and those of
\* them answered with the text their job generated.
Exchanges(p) ==
    {r \in Req : /\ IsFD(r) \/ IsFMI(r)
                 /\ req[r].body.participantId = p
                 /\ ~(Done(r) /\ req[r].res.status = 400)}
Completed(r) ==
    Done(r) /\ req[r].res.status = 200 /\ req[r].status = "completed"
            /\ IsGenerated(req[r].res.text)

Positions(h, role, r) == {i \in 1..Len(h) : h[i].role = role /\ h[i].by = r}

\* r1's prompt was submitted to a remote thread before r2's prompt.
SubmittedBefore(r1, r2) ==
    \E t \in 1..Len(rthreads) : \E i, j \in 1..Len(rthreads[t].messages) :
        /\ i < j
        /\ rthreads[t].messages[i].role = "user" /\ rthreads[t].messages[i].by = r1
        /\ rthreads[t].messages[j].role = "user" /\ rthreads[t].messages[j].by = r2

\* C4: once the N >= 2 requests of a participant have all been answered with
\* the text of their completed jobs, the participant's stored history holds 2N
\* messages, one prompt and one response of each request, the prompts in the
\* order of submission; and no message is stored in another participant's
\* session.
C4_HistoryHoldsEveryExchange ==
    /\ \A i \in 1..Len(store) : \A k \in 1..Len(store[i].messages) :
            req[store[i].messages[k].by].body.participantId = store[i].participantId
    /\ \A p \in Participants :
        (Cardinality(Exchanges(p)) >= 2 /\ \A r \in Exchanges(p) : Completed(r))
            => LET h == History(p) IN
               /\ Len(h) = 2 * Cardinality(Exchanges(p))
               /\ \A r \in Exchanges(p) :
                    /\ Cardinality(Positions(h, "user", r)) = 1
                    /\ Cardinality(Positions(h, "assistant", r)) = 1
               /\ \A r1, r2 \in Exchanges(p) :
                    SubmittedBefore(r1, r2)
                        => \A i \in Positions(h, "user", r1) :
                           \A j \in Positions(h, "user", r2) : i < j

\* C5: a /fetch-more-info request that is polling is eventually answered,
\* also when every poll finds the run queued or in progress.
C5_MoreInfoPollingEnds ==
    \A r \in Req : (IsFMI(r) /\ req[r].pc = "poll") ~> Done(r)

\* C6: a /fetch-description request that is polling is eventually answered,
\* also when every poll finds the run queued or in progress; it is answered
\* once, and makes no remote call after its response.
C6_DescriptionAnswersOnceAndStops ==
    /\ \A r \in Req : (IsFD(r) /\ req[r].pc = "poll") ~> Done(r)
    /\ [](\A r \in Req : IsFD(r) =>
            /\ req[r].sent <= 1
            /\ ~req[r].lateCall
            /\ Done(r) <=> req[r].sent = 1)

\* The poll ceiling was hit and the request answered once.
C6_Witness ==
    \E r \in Req : IsFD(r) /\ Done(r) /\ req[r].res.at = 257 /\ req[r].sent = 1
                           /\ req[r].status \in PollingStatuses

\* C7: a /fetch-description request answered with the timeout has issued at
\* most 10 status polls (attemptCount counts the polls issued before this
\* step, whose poll is one more).
C7_TimeoutAfterAtMostTenPolls ==
    [][\A r \in Req :
        (IsFD(r) /\ req[r].pc = "poll" /\ req'[r].pc = "done" /\ req'[r].res.at = 257)
            => req[r].attemptCount + 1 <= 10]_vars

\* C8: the response sent when the poll loop hits its ceiling contains the
\* request's originalDescription.
C8_TimeoutResponseHasOriginal ==
    \A r \in Req :
        (IsFD(r) /\ Done(r) /\ req[r].res.at = 257)
            => Contains(req[r].res.text, req[r].body.description)

\* C9: once a status poll of a /fetch-description request has returned
\* "failed", the request is over: it has made no further call, has stored no
\* assistant message, and its response contains the originalDescription.
C9_FailedRunFallsBack ==
    \A r \in Req :
        (IsFD(r) /\ req[r].status = "failed")
            => /\ Done(r) /\ req[r].sent = 1 /\ ~req[r].lateCall
               /\ req[r].res.key = "response"
               /\ Contains(req[r].res.text, req[r].body.description)
               /\ \A i \in 1..Len(store) : Positions(store[i].messages, "assistant", r) = {}

C9_Witness ==
    \E r \in Req : IsFD(r) /\ req[r].status = "failed" /\ Done(r) /\ req[r].sent = 1

\* C10: when the messages fetched for a completed run hold no assistant
\* message, or the assistant message found has no content (none, or an empty
\* content array), the request is answered with a non-empty response that
\* contains the originalDescription and stores no assistant message.
C10_EmptyResultFallsBack ==
    [][\A r \in Req :
        (/\ IsFD(r) /\ req[r].pc = "listMessages" /\ req'[r] # req[r]
         /\ LET m == FirstAssistant(rthreads[req[r].threadId].messages)
            IN m.role # "assistant" \/ m.shape \in {"nocontent", "emptycontent"})
            => /\ req'[r].pc = "done"
               /\ req'[r].res.key = "response"
               /\ req'[r].res.text # EmptyText
               /\ Contains(req'[r].res.text, req[r].body.description)
               /\ \A i \in 1..Len(store') :
                    Positions(store'[i].messages, "assistant", r) = {}]_vars

\* The empty-result branch was taken for a run that completed.
C10_Witness ==
    \E r \in Req : IsFD(r) /\ Done(r) /\ req[r].res.at = 289
                           /\ req[r].status = "completed"

\* C11: the empty-result outcome of /fetch-description (the run completed and
\* the messages fetched hold no usable assistant message) is answered with
\* status 200.
C11_EmptyResultAnswered200 ==
    \A r \in Req :
        (IsFD(r) /\ Done(r) /\ req[r].status = "completed" /\ req[r].res.at = 289)
            => req[r].res.status = 200

\* C12: every response of /fetch-description and /fetch-more-info to a
\* request whose run was started carries a non-empty `response` text,
\* whatever the run's outcome.
C12_ResponseNeverEmpty ==
    \A r \in Req :
        ((IsFD(r) \/ IsFMI(r)) /\ Done(r) /\ req[r].status # "")
            => req[r].res.key = "response" /\ req[r].res.text # EmptyText

\* C20: a fetch request that was answered has stored either its prompt
\* followed by the assistant text (the run completed and the request was
\* answered 200) or nothing.
C20_HistoryOnlyBySuccessfulExchange ==
    \A r \in Req :
        ((IsFD(r) \/ IsFMI(r)) /\ Done(r))
            => IF req[r].res.status = 200 /\ req[r].status = "completed"
               THEN \E i \in 1..Len(store) :
                        /\ Cardinality(Positions(store[i].messages, "user", r)) = 1
                        /\ Cardinality(Positions(store[i].messages, "assistant", r)) = 1
                        /\ \A u \in Positions(store[i].messages, "user", r) :
                           \A v \in Positions(store[i].messages, "assistant", r) : u < v
               ELSE \A i \in 1..Len(store) :
                        /\ Positions(store[i].messages, "user", r) = {}
                        /\ Positions(store[i].messages, "assistant", r) = {}

IsTTS(r) == req[r].kind = "fetch-tts"

\* The number of elements of seq equal to v.
Count(seq, v) == Cardinality({k \in 1..Len(seq) : seq[k] = v})

Calls(r) == Count(req[r].tts.events, "call")

\* The synthesis calls and the backoff waits of r alternate, a call first.
OneWaitBetweenCalls(r) ==
    \A k \in 1..Len(req[r].tts.events) :
        req[r].tts.events[k] = IF k % 2 = 1 THEN "call" ELSE "wait"

\* C13: fetchTTSWithRetry makes at most 3 synthesis calls, with exactly one
\* backoff wait between two consecutive calls; once attempt k has succeeded
\* it has made exactly k calls and k - 1 waits, never makes another, and the
\* request is answered with the payload of attempt k.
C13_StopsAtFirstSuccess ==
    \A r \in Req :
        IsTTS(r) =>
            /\ Calls(r) <= Retries
            /\ OneWaitBetweenCalls(r)
            /\ req[r].tts.ok # 0 =>
                /\ Done(r)
                /\ Calls(r) = req[r].tts.ok
                /\ Len(req[r].tts.events) = 2 * req[r].tts.ok - 1
                /\ Len(req[r].tts.errors) = req[r].tts.ok - 1
                /\ req[r].res = Response(200, "audio", Audio(req[r].tts.ok), 472)

\* Attempts 1 and 2 failed and attempt 3 succeeded.
C13_Witness ==
    \E r \in Req : IsTTS(r) /\ Done(r) /\ req[r].tts.ok = Retries

\* C14: when all 3 attempts have failed, fetchTTSWithRetry has thrown the
\* error of the third attempt, after 3 calls and 2 waits, none of them after
\* the last call, and /fetch-tts has answered 500 from its catch branch.
C14_ExhaustionRaisesLastError ==
    \A r \in Req :
        (IsTTS(r) /\ Len(req[r].tts.errors) = Retries) =>
            /\ Done(r)
            /\ req[r].tts.raised = req[r].tts.errors[Retries]
            /\ req[r].tts.raised[2] = ToString(Retries)
            /\ req[r].tts.events = <<"call", "wait", "call", "wait", "call">>
            /\ req[r].res = Response(500, "error", FailedTTS, 475)

\* The three attempts failed in three different ways.
C14_Witness ==
    \E r \in Req :
        /\ IsTTS(r) /\ Done(r) /\ Len(req[r].tts.errors) = Retries
        /\ req[r].tts.errors[1][1] = "fetch rejected"
        /\ req[r].tts.errors[2][1] = "arrayBuffer rejected"
        /\ req[r].tts.errors[3][1] = "Failed to generate audio:"

\* The fields a handler's own validation tests (lines 163, 325, 452, 107),
\* one of which the request q lacks.
LacksValidated(q) ==
    CASE q.kind \in {"fetch-description", "fetch-more-info"} ->
            \/ q.body.artefact = Missing \/ q.body.description = Missing
            \/ q.body.profile = Missing \/ q.body.participantId = Missing
      [] q.kind = "fetch-tts" -> q.tts.text = Missing
      [] q.kind = "log-artefact-data" ->
            \/ q.body.participantId = Missing \/ q.body.artefact = Missing
            \/ q.body.descriptionType = Missing \/ q.body.profile = Missing
      [] OTHER -> FALSE

\* The request q lacks a field its handler needs: one its validation tests,
\* or the deliveryMode that the interaction record requires (line 62).
LacksRequired(q) ==
    \/ LacksValidated(q)
    \/ q.kind = "log-artefact-data" /\ q.body.deliveryMode = Missing

\* C15: every step taken by a request that lacks a required field is its
\* arrival, which answers 400 and leaves the store and the remote service as
\* they were: no store read or write and no remote call is ever awaited.
C15_MissingFieldFailsFast ==
    [][\A r \in Req :
        (req'[r] # req[r] /\ LacksRequired(req'[r])) =>
            /\ req[r].pc = "idle"
            /\ req'[r].pc = "done"
            /\ req'[r].res.status = 400
            /\ UNCHANGED <<store, rthreads, nRuns>>]_vars

\* C15 for the fields that the validations of the four handlers test.
C15_ValidatedFieldFailsFast ==
    [][\A r \in Req :
        (req'[r] # req[r] /\ LacksValidated(req'[r])) =>
            /\ req[r].pc = "idle"
            /\ req'[r].pc = "done"
            /\ req'[r].res.status = 400
            /\ UNCHANGED <<store, rthreads, nRuns>>]_vars

IsLog(r) == req[r].kind = "log-artefact-data"

\* C16: every answered /log-artefact-data request was answered 200 or 400.
C16_LogAnswers200Or400 ==
    \A r \in Req : (IsLog(r) /\ Done(r)) => req[r].res.status \in {200, 400}

\* The /log-artefact-data requests for (participantId, artefact) that were
\* accepted: answered 200.
Accepted(participantId, artefact) ==
    {r \in Req : /\ IsLog(r) /\ Done(r) /\ req[r].res.status = 200
                 /\ req[r].body.participantId = participantId
                 /\ req[r].body.artefact = artefact}

\* The sum over the requests of R of the number submitted as the given field.
RECURSIVE Submitted(_, _)
Submitted(R, field) ==
    IF R = {} THEN 0
    ELSE LET r == CHOOSE x \in R : TRUE
         IN NumberOrZero(req[r].body[field]) + Submitted(R \ {r}, field)

Latest(R) == CHOOSE r \in R : \A x \in R : x <= r

\* The interaction records stored for (participantId, artefact), as
\* <<document, index>> pairs.
Records(participantId, artefact) ==
    {di \in UNION {{<<d, k>> : k \in 1..Len(store[d].artefactInteractions)} :
                        d \in 1..Len(store)} :
        /\ store[di[1]].participantId = participantId
        /\ store[di[1]].artefactInteractions[di[2]].artefact = artefact}

Record(di) == store[di[1]].artefactInteractions[di[2]]

\* The record di holds the sums of what the requests of R submitted.
Accounts(di, R) ==
    /\ Record(di).timeSpentSeconds = Submitted(R, "timeSpentSeconds")
    /\ Record(di).tellMeMoreClicked = Submitted(R, "tellMeMoreClicked")

LogPairs == {<<b.participantId, b.artefact>> : b \in LogMergeBodies \cup LogBodies}

\* C17: with /log-artefact-data requests handled one after the other, every
\* (participant, artefact) with an accepted request has a record whose
\* timeSpentSeconds and tellMeMoreClicked are the sums of the numbers its
\* accepted requests submitted, and whose deliveryMode and playedAudio are
\* those of the latest accepted request.
C17_SumsAndLatest ==
    \A pa \in LogPairs :
        LET R == Accepted(pa[1], pa[2]) IN
        R # {} =>
            /\ Records(pa[1], pa[2]) # {}
            /\ \A di \in Records(pa[1], pa[2]) :
                /\ Accounts(di, R)
                /\ Record(di).deliveryMode = req[Latest(R)].body.deliveryMode
                /\ Record(di).playedAudio = req[Latest(R)].body.playedAudio

\* 5 then 7 were submitted for the same pair and 12 is stored; the delivery
\* mode changed between the two calls.
C17_Witness ==
    \E pa \in LogPairs :
        /\ Accepted(pa[1], pa[2]) = {1, 2}
        /\ req[1].body.timeSpentSeconds = Num(5) /\ req[2].body.timeSpentSeconds = Num(7)
        /\ req[1].body.deliveryMode = "Text-Based" /\ req[2].body.deliveryMode = "Auditory"
        /\ \E di \in Records(pa[1], pa[2]) :
            /\ Record(di).timeSpentSeconds = 12
            /\ Record(di).deliveryMode = "Auditory"

\* C18: no step decreases the timeSpentSeconds or the tellMeMoreClicked of a
\* stored interaction record.
C18_CumulativeNeverDecreases ==
    [][\A d \in 1..Len(store) : \A k \in 1..Len(store[d].artefactInteractions) :
        /\ store'[d].artefactInteractions[k].timeSpentSeconds
                >= store[d].artefactInteractions[k].timeSpentSeconds
        /\ store'[d].artefactInteractions[k].tellMeMoreClicked
                >= store[d].artefactInteractions[k].tellMeMoreClicked]_vars

\* C19: whatever the interleaving, the store holds at most one interaction
\* record per (participant, artefact), and once no request is in flight the
\* record accounts for every accepted request.
C19_OneRecordAccountingForAll ==
    \A pa \in LogPairs :
        /\ Cardinality(Records(pa[1], pa[2])) <= 1
        /\ InFlight = {} =>
            \A di \in Records(pa[1], pa[2]) : Accounts(di, Accepted(pa[1], pa[2]))

\* C19, the accounting alone.
C19_NoLostUpdate ==
    \A pa \in LogPairs :
        (InFlight = {} /\ Cardinality(Records(pa[1], pa[2])) = 1) =>
            \A di \in Records(pa[1], pa[2]) : Accounts(di, Accepted(pa[1], pa[2]))

\* The requests r and x of one participant are in flight on the same thread.
InFlightOnSameThread(r, x) ==
    /\ r # x /\ r \in InFlight /\ x \in InFlight
    /\ (IsFD(r) \/ IsFMI(r)) /\ (IsFD(x) \/ IsFMI(x))
    /\ req[r].body.participantId = req[x].body.participantId
    /\ req[r].threadId # NoThread /\ req[r].threadId = req[x].threadId

\* C21: when a request that is in flight on the same thread as another
\* request of its participant saves and returns a generated text, that text is
\* the output of its own run: it is what the response carries and what the
\* assistant message it stored holds.
C21_ReturnsOwnRunOutput ==
    [][\A r \in Req : \A x \in Req :
        (/\ InFlightOnSameThread(r, x)
         /\ req[r].pc = "saveAssistant" /\ req'[r].pc = "done"
         /\ IsGenerated(req'[r].res.text)) =>
            /\ req'[r].res.text = GeneratedText(req[r].runId)
            /\ \E d \in 1..Len(store') : \E i \in 1..Len(store'[d].messages) :
                store'[d].messages[i] =
                    StoredMessage("assistant", GeneratedText(req[r].runId), r)]_vars

\* The participant of the request q.
ParticipantOf(q) == q.body.participantId

\* Everything that the sequence new holds and old did not, or that it holds
\* changed, belongs to participantId; new is old with additions and changes.
OnlyTouches(old, new, participantId) ==
    /\ Len(new) >= Len(old)
    /\ \A k \in 1..Len(new) :
        (k > Len(old) \/ new[k] # old[k]) => new[k].participantId = participantId
    /\ \A k \in 1..Len(old) :
        new[k] # old[k] => old[k].participantId = participantId

\* What the request q holds of the store and of the remote service belongs
\* to its participant: the session it loaded, the thread it uses, and the
\* generated text it took or sent.
HoldsOnlyOwn(q, s, threads) ==
    /\ q.doc # NoDoc => s[q.doc].participantId = ParticipantOf(q)
    /\ q.threadId # NoThread => threads[q.threadId].participantId = ParticipantOf(q)
    /\ \A text \in {q.responseContent, q.res.text} :
        IsGenerated(text) =>
            \E t \in 1..Len(threads) : \E i \in 1..Len(threads[t].messages) :
                /\ threads[t].participantId = ParticipantOf(q)
                /\ threads[t].messages[i].text = text

\* C22: a step of a request creates and modifies only sessions and threads
\* of its own participant, and what the request then holds (the session it
\* loaded, its thread, the text it took or answered with) is its own
\* participant's.
C22_ParticipantsIndependent ==
    [][\A r \in Req :
        req'[r] # req[r] =>
            /\ OnlyTouches(store, store', ParticipantOf(req'[r]))
            /\ OnlyTouches(rthreads, rthreads', ParticipantOf(req'[r]))
            /\ HoldsOnlyOwn(req'[r], store', rthreads')]_vars

\* A request of p2 arrived after one of p1, which is still in flight with a
\* session loaded, and was answered with a generated text.
C22_Witness ==
    /\ ParticipantOf(req[1]) = "p1" /\ 1 \in InFlight /\ req[1].doc # NoDoc
    /\ ParticipantOf(req[2]) = "p2" /\ Done(2)
    /\ req[2].res.status = 200 /\ IsGenerated(req[2].res.text)
    /\ \E d \in DocsOf("p2") : Len(store[d].messages) = 2
====
